---- MODULE Spec2Model ----
(***************************************************************************)
(* The blackjack campaign of advanced-blackjack-simulation.py:             *)
(* simulate_game run over a list of PlayerSimulator seats, each holding a  *)
(* reference to a BlackjackAI (its shoe and its card counter).             *)
(*                                                                         *)
(* A shoe is kept as the number of cards left in it.  Deck.__init__        *)
(* shuffles, so the rank of the card a draw pops is any rank of ShoeRanks: *)
(* every order of the shoe is a behaviour of the model.                    *)
(***************************************************************************)
EXTENDS Integers, Sequences, FiniteSets, TLC

\* ---------------------------------------------------------------- bounds
\* seats at a table of perfect skill
MaxSeats == 2
\* num_rounds of a campaign of one seat of perfect skill
MaxRounds == 2
\* num_rounds of the long campaign
LongRounds == 27
\* skill_level and random.random() are counted in 1/SkillUnit: with 2, the
\* levels are 0.0, 0.5 and 1.0 and random.random() is 0.0 or 0.5
SkillUnit == 2
\* a skill_level strictly between 0 and 1, in 1/SkillUnit: make_decision
\* returns recommend_action's answer or any of the four actions
Noisy == 1
\* cards in a hand passed to a method called on its own
MaxHandLen == 3
\* cards in a hand of Aces, 9s and Kings passed to Hand.value
LongHandLen == 5
\* cards left in the shoe a method called on its own reads
MaxShoeLen == 2
\* num_simulations of simulate_dealer_hand (10000 by default)
MaxTrials == 3
\* bet_size values a seat is constructed with
BetChoices == {10, 20}
\* num_decks values a BlackjackAI is constructed with
DeckChoices == {1, 6}

\* ----------------------------------------------------- program constants
RANKS == <<"A", "2", "3", "4", "5", "6", "7", "8", "9", "10", "J", "Q", "K">>
SUITS == 4
CardsPerDeck == Len(RANKS) * SUITS
ReshuffleBelow == 52
ReshuffleDecks == 6
CounterDecks == 6
SplitLimit == 4
DealerStands == 17
BustAbove == 21
ResetBet == 10
StartBankroll == 1000
Actions == {"Hit", "Stand", "Double", "Split"}

VARIABLES
    nSeats,      \* len(players)
    aiOf,        \* seat -> the BlackjackAI object player.ai refers to
    skill,       \* seat -> skill_level, in 1/SkillUnit
    mlModel,     \* seat -> whether player.ml_model is a classifier (not None)
    baseBet,     \* seat -> the bet_size the seat was constructed with
    numDecks,    \* ai -> the num_decks the AI was constructed with
    system,      \* ai -> ai.card_counter.system
    european,    \* european_rules
    numRounds,   \* num_rounds
    ShoeRanks,   \* the ranks the shuffled shoes of this campaign deal (a bound
                 \* on the shoe orders explored; a subset of Card.RANKS)
    deck,        \* ai -> len(ai.deck.cards)
    count,       \* ai -> ai.card_counter.count
    decksRem,    \* ai -> ai.card_counter.decks_remaining, in 1/52 deck
    trueCount,   \* ai -> ai.card_counter.true_count as <<numerator, denominator>>
    bankroll,    \* seat -> player.bankroll
    betSize,     \* seat -> player.bet_size
    round,       \* rounds completed
    dealer,      \* dealer_hand.cards (ranks)
    seat,        \* index of `player` in the loop over players
    hands,       \* player_hands of the current seat (sequences of ranks)
    h,           \* index of `hand` in the loop over player_hands
    decision,    \* the last value make_decision returned
    results,     \* results
    pc,          \* position in simulate_game
    doubled,     \* history: indices of the current seat's hands that took a Double
    dealerSeen,  \* history: per dealer card, times passed to card_counter.update
    handsSeen,   \* history: times the current seat's cards were passed to update
    shoe,        \* ai.deck.cards (ranks, the last one drawn first), for the methods
                 \* of BlackjackAI called on their own
    ret          \* <<method, value>>: the value the method called on its own returned

config == <<nSeats, aiOf, skill, mlModel, baseBet, numDecks, system, european, numRounds,
            ShoeRanks>>
table == <<deck, count, decksRem, trueCount>>
money == <<bankroll, betSize, results>>
turn == <<dealer, seat, hands, h, decision>>
history == <<doubled, dealerSeen, handsSeen>>
bench == <<shoe, ret>>
vars == <<config, table, money, turn, history, bench, round, pc>>

\* ------------------------------------------------------------ Card, Hand
\* Card.value
CardValue(rank) ==
    IF rank \in {"J", "Q", "K"} THEN 10
    ELSE IF rank = "A" THEN 11
    ELSE CHOOSE n \in 2..10 : RANKS[n] = rank

RECURSIVE SumValues(_)
SumValues(cards) ==
    IF cards = <<>> THEN 0 ELSE CardValue(Head(cards)) + SumValues(Tail(cards))

RECURSIVE CountAces(_)
CountAces(cards) ==
    IF cards = <<>> THEN 0
    ELSE (IF Head(cards) = "A" THEN 1 ELSE 0) + CountAces(Tail(cards))

\* mutant of SoftenAces: at most one Ace is counted as 1
SoftenOneAce(total, aces) ==
    IF total > 21 /\ aces > 0 THEN total - 10 ELSE total

\* the while loop of Hand.value
RECURSIVE SoftenAces(_, _)
SoftenAces(total, aces) ==
    IF total > BustAbove /\ aces > 0 THEN SoftenAces(total - 10, aces - 1) ELSE total

\* Hand.value
HandValue(cards) == SoftenAces(SumValues(cards), CountAces(cards))

\* Hand.can_split
CanSplit(cards) == Len(cards) = 2 /\ cards[1] = cards[2]

\* ----------------------------------------------------------- BlackjackAI
\* BlackjackAI.basic_strategy
BasicStrategy(cards, upCard) ==
    LET pv == HandValue(cards)
        dv == CardValue(upCard)
        totals ==
            IF pv >= 17 THEN "Stand"
            ELSE IF pv <= 11 THEN "Hit"
            ELSE IF pv = 12 THEN (IF 4 <= dv /\ dv <= 6 THEN "Stand" ELSE "Hit")
            ELSE IF 13 <= pv /\ pv <= 16 THEN (IF 2 <= dv /\ dv <= 6 THEN "Stand" ELSE "Hit")
            ELSE "Stand"
        doubles ==
            IF Len(cards) = 2 /\ pv = 11 THEN (IF dv # 11 THEN "Double" ELSE "Hit")
            ELSE IF Len(cards) = 2 /\ pv = 10 THEN (IF dv < 10 THEN "Double" ELSE "Hit")
            ELSE IF Len(cards) = 2 /\ pv = 9 THEN (IF 3 <= dv /\ dv <= 6 THEN "Double" ELSE "Hit")
            ELSE totals
    IN  IF CanSplit(cards) /\ pv \in {16, 18} THEN "Split"
        ELSE IF CanSplit(cards) /\ pv = 20 THEN "Stand"
        ELSE IF CanSplit(cards) /\ pv \in {4, 6} THEN (IF dv \in 2..6 THEN "Split" ELSE "Hit")
        ELSE IF CanSplit(cards) /\ pv = 12 THEN (IF dv \in 2..6 THEN "Split" ELSE "Hit")
        ELSE IF CanSplit(cards) /\ pv = 14 THEN (IF dv \in 2..7 THEN "Split" ELSE "Hit")
        ELSE doubles

\* BlackjackAI.calculate_bust_probability as <<bust_cards, total_cards>>, <<0, 1>>
\* for its answer 0 on an empty shoe: bust_cards counts the cards of the shoe
\* whose Card.value is in range(22 - player_hand.value(), 11)
BustProbability(cards, deckCards) ==
    LET pv == HandValue(cards)
        bustCards == {i \in 1..Len(deckCards) : CardValue(deckCards[i]) \in (22 - pv)..10}
    IN  IF Len(deckCards) > 0 THEN <<Cardinality(bustCards), Len(deckCards)>> ELSE <<0, 1>>

\* mutant of PutBack: the card drawn in a trial is not put back
PutBackNothing(rest, card) == rest

\* mutant of PutBack: the card drawn in a trial is put back under the shoe
PutBackUnder(rest, card) == <<card>> \o rest

\* self.deck.cards.append(dealer_hand.cards[-1]), after Deck.draw popped the
\* last card of the list and left `rest`
PutBack(rest, card) == Append(rest, card)

\* one trial of simulate_dealer_hand: while dealer_hand.value() < 17, draw (pop
\* the last card of the shoe, or raise on an empty shoe) and put the card back.
\* `drawn` collects the cards drawn, in order.
RECURSIVE DealerTrial(_, _, _)
DealerTrial(hand, cards, drawn) ==
    IF HandValue(hand) >= 17
    THEN [hand |-> hand, cards |-> cards, drawn |-> drawn, raised |-> FALSE]
    ELSE IF cards = <<>>
    THEN [hand |-> hand, cards |-> cards, drawn |-> drawn, raised |-> TRUE]
    ELSE LET card == cards[Len(cards)]
             rest == SubSeq(cards, 1, Len(cards) - 1)
         IN  DealerTrial(Append(hand, card), PutBack(rest, card), Append(drawn, card))

\* for _ in range(num_simulations): n more trials, one after the other on the
\* same shoe
RECURSIVE DealerTrials(_, _, _, _, _)
DealerTrials(upCard, cards, n, busts, drawn) ==
    IF n = 0
    THEN [busts |-> busts, cards |-> cards, drawn |-> drawn, raised |-> FALSE]
    ELSE LET trial == DealerTrial(<<upCard>>, cards, drawn)
         IN  IF trial.raised
             THEN [busts |-> busts, cards |-> trial.cards, drawn |-> trial.drawn,
                   raised |-> TRUE]
             ELSE DealerTrials(upCard, trial.cards, n - 1,
                               busts + (IF HandValue(trial.hand) > 21 THEN 1 ELSE 0),
                               trial.drawn)

\* BlackjackAI.simulate_dealer_hand up to its return statement: dealer_busts,
\* the shoe it leaves, the cards it drew, and whether a draw raised
SimulateDealerHand(upCard, cards, n) == DealerTrials(upCard, cards, n, 0, <<>>)

\* card_counter.true_count > 2, true_count kept as <<numerator, denominator>>
\* of count / decks_remaining with decks_remaining in 1/52 deck
TrueCountAbove2(tc) == tc[1] * CardsPerDeck > 2 * tc[2]

\* BlackjackAI.recommend_action
RecommendAction(cards, upCard, tc) ==
    LET basic == BasicStrategy(cards, upCard)
    IN  IF TrueCountAbove2(tc) /\ HandValue(cards) = 16 /\ CardValue(upCard) = 10
        THEN "Stand"
        ELSE IF TrueCountAbove2(tc) /\ basic = "Hit" /\ HandValue(cards) = 12
        THEN "Stand"
        ELSE basic

\* the labels ml_model.predict can return
PredictLabels == Actions

\* -------------------------------- BlackjackAI of advanced-blackjack-ai.py
\* BlackjackAI.basic_strategy of advanced-blackjack-ai.py: totals only
BasicStrategyAi(cards, upCard) ==
    LET pv == HandValue(cards)
        dv == CardValue(upCard)
    IN  IF pv >= 17 THEN "Stand"
        ELSE IF pv <= 11 THEN "Hit"
        ELSE IF pv = 12 THEN (IF 4 <= dv /\ dv <= 6 THEN "Stand" ELSE "Hit")
        ELSE IF 13 <= pv /\ pv <= 16 THEN (IF 2 <= dv /\ dv <= 6 THEN "Stand" ELSE "Hit")
        ELSE "Stand"

\* mutant of RecommendActionAi: the dealer-bust rule without `value >= 12`
RecommendActionAiAnyValue(cards, upCard, tc, bustProb, dealerBusts, n) ==
    IF TrueCountAbove2(tc) /\ HandValue(cards) = 16 /\ CardValue(upCard) = 10 THEN "Stand"
    ELSE IF bustProb[1] * 10 > 6 * bustProb[2] THEN "Stand"
    ELSE IF dealerBusts * 2 > n THEN "Stand"
    ELSE BasicStrategyAi(cards, upCard)

\* the if/elif chain of BlackjackAI.recommend_action of advanced-blackjack-ai.py,
\* on bust_prob = bustProb[1] / bustProb[2] and dealer_bust_prob = dealerBusts / n
RecommendActionAi(cards, upCard, tc, bustProb, dealerBusts, n) ==
    IF TrueCountAbove2(tc) /\ HandValue(cards) = 16 /\ CardValue(upCard) = 10 THEN "Stand"
    ELSE IF bustProb[1] * 10 > 6 * bustProb[2] THEN "Stand"
    ELSE IF dealerBusts * 2 > n /\ HandValue(cards) >= 12 THEN "Stand"
    ELSE BasicStrategyAi(cards, upCard)

\* PlayerSimulator.make_decision when predict (if called) returns: the actions
\* it can return, over the values of random.random(), of random.choice and of
\* predict.  With a classifier, a first draw below skill_level returns the
\* classifier's label or recommend_action's answer; otherwise, and without a
\* classifier, a draw below skill_level returns recommend_action's answer and
\* any other draw one of the four actions.
MakeDecision(s, cards, upCard) ==
    LET optimal == RecommendAction(cards, upCard, trueCount[aiOf[s]])
        draws == 0..(SkillUnit - 1)
        plain == { IF r < skill[s] THEN optimal ELSE a : r \in draws, a \in Actions }
        blended == IF \E r \in draws : r < skill[s] THEN PredictLabels \cup {optimal} ELSE {}
        fallThrough == IF \E r \in draws : r >= skill[s] THEN plain ELSE {}
    IN  IF mlModel[s] THEN blended \cup fallThrough ELSE plain

\* ----------------------------------------------------------- CardCounter
\* mutant of CountTag: every system counts as KO does
CountTagAsKo(sys, rank) ==
    LET v == CardValue(rank)
    IN  IF v \in {10, 11} THEN -1 ELSE IF 2 <= v /\ v <= 7 THEN 1 ELSE 0

\* the change CardCounter.update makes to count for one card
CountTag(sys, rank) ==
    LET v == CardValue(rank)
    IN  IF sys = "Hi-Lo" THEN
            (IF v \in {10, 11} THEN -1 ELSE IF 2 <= v /\ v <= 6 THEN 1 ELSE 0)
        ELSE IF sys = "KO" THEN
            (IF v \in {10, 11} THEN -1 ELSE IF 2 <= v /\ v <= 7 THEN 1 ELSE 0)
        ELSE IF sys = "Omega II" THEN
            (IF v \in {10, 11} THEN -2
             ELSE IF v \in {2, 3, 7} THEN 1
             ELSE IF v \in {4, 5, 6} THEN 2
             ELSE IF v = 9 THEN -1 ELSE 0)
        ELSE 0

RECURSIVE SumTags(_, _)
SumTags(sys, cards) ==
    IF cards = <<>> THEN 0 ELSE CountTag(sys, Head(cards)) + SumTags(sys, Tail(cards))

\* decks_remaining (in 1/52 deck) after n calls of CardCounter.update
DecksAfter(dr, n) ==
    IF dr - n >= CardsPerDeck THEN dr - n ELSE IF n = 0 THEN dr ELSE CardsPerDeck

RECURSIVE Flatten(_)
Flatten(hs) == IF hs = <<>> THEN <<>> ELSE Head(hs) \o Flatten(Tail(hs))

\* ------------------------------------------------------------------ Init
\* players[0].ai
Ai0 == aiOf[1]

\* The state simulate_game starts in, for the table sizes, AI sharing, skill
\* levels, bets, shoes, counting systems, rules, round counts and shoe ranks given
InitWith(seatSet, shareSet, skillSet, mlSet, betSet, deckSet, systemSet, ruleSet, roundSet, rankSet) ==
    /\ nSeats \in seatSet
    /\ \E m \in mlSet : mlModel = [s \in 1..nSeats |-> m]
    /\ \E shared \in shareSet :
          aiOf = [s \in 1..nSeats |-> IF shared THEN 1 ELSE s]
    /\ skill \in [1..nSeats -> skillSet]
    /\ \E b \in betSet : baseBet = [s \in 1..nSeats |-> b]
    /\ \E nd \in deckSet : numDecks = [a \in 1..nSeats |-> nd]
    /\ \E sy \in systemSet : system = [a \in 1..nSeats |-> sy]
    /\ european \in ruleSet
    /\ numRounds \in roundSet
    /\ ShoeRanks \in rankSet
    \* Deck.__init__, CardCounter.__init__
    /\ deck = [a \in 1..nSeats |-> numDecks[a] * CardsPerDeck]
    /\ count = [a \in 1..nSeats |-> 0]
    /\ decksRem = [a \in 1..nSeats |-> CounterDecks * CardsPerDeck]
    /\ trueCount = [a \in 1..nSeats |-> <<0, 1>>]
    \* PlayerSimulator.__init__
    /\ bankroll = [s \in 1..nSeats |-> StartBankroll]
    /\ betSize = baseBet
    /\ round = 0
    /\ dealer = <<>>
    /\ seat = 1
    /\ hands = <<>>
    /\ h = 1
    /\ decision = "none"
    /\ results = <<>>
    /\ pc = "round"
    /\ doubled = {}
    /\ dealerSeen = <<>>
    /\ handsSeen = 0
    /\ shoe = <<>>
    /\ ret = <<"none">>

\* -------------------------------------------------------- simulate_game
\* Deck.draw on an empty shoe raises ValueError, which ends simulate_game (its
\* locals are lost with it; the shoe, the counters and the seats remain)
Raise(a) ==
    /\ pc' = "error"
    /\ deck' = [deck EXCEPT ![a] = 0]
    /\ UNCHANGED <<config, bench, count, decksRem, trueCount, money, turn, history, round>>

\* for _ in range(num_rounds): the next round, or return results
RoundLoop ==
    /\ pc = "round"
    /\ pc' = IF round < numRounds THEN "check" ELSE "done"
    /\ UNCHANGED <<config, bench, table, money, turn, history, round>>

\* the shoe players[0].ai.deck is replaced by
NewShoe == ReshuffleDecks * CardsPerDeck

\* mutant of Reshuffle: the reshuffle also resets the running count
ReshuffleResetsCount ==
    /\ pc = "check"
    /\ deck[Ai0] < ReshuffleBelow
    /\ deck' = [deck EXCEPT ![Ai0] = NewShoe]
    /\ decksRem' = [decksRem EXCEPT ![Ai0] = CounterDecks * CardsPerDeck]
    /\ count' = [count EXCEPT ![Ai0] = 0]
    /\ trueCount' = [trueCount EXCEPT ![Ai0] = <<0, 1>>]
    /\ pc' = "deal"
    /\ UNCHANGED <<config, bench, money, turn, history, round>>

\* if len(players[0].ai.deck.cards) < 52: new Deck(6), decks_remaining = 6
Reshuffle ==
    /\ pc = "check"
    /\ deck[Ai0] < ReshuffleBelow
    /\ deck' = [deck EXCEPT ![Ai0] = NewShoe]
    /\ decksRem' = [decksRem EXCEPT ![Ai0] = CounterDecks * CardsPerDeck]
    /\ pc' = "deal"
    /\ UNCHANGED <<config, bench, count, trueCount, money, turn, history, round>>

NoReshuffle ==
    /\ pc = "check"
    /\ deck[Ai0] >= ReshuffleBelow
    /\ pc' = "deal"
    /\ UNCHANGED <<config, bench, table, money, turn, history, round>>

\* dealer_hand = Hand([draw()]), and the hole card under American rules
DealDealer ==
    /\ pc = "deal"
    /\ LET n == IF european THEN 1 ELSE 2
       IN  IF deck[Ai0] < n THEN Raise(Ai0)
           ELSE /\ \E cs \in [1..n -> ShoeRanks] :
                     /\ dealer' = cs
                     /\ dealerSeen' = [i \in 1..n |-> 0]
                /\ deck' = [deck EXCEPT ![Ai0] = @ - n]
                /\ seat' = 1
                /\ pc' = "seat"
                /\ UNCHANGED <<config, bench, count, decksRem, trueCount, money, hands, h,
                               decision, doubled, handsSeen, round>>

\* player_hands = [Hand([draw(), draw()])]
DealSeat ==
    /\ pc = "seat"
    /\ LET a == aiOf[seat]
       IN  IF deck[a] < 2 THEN Raise(a)
           ELSE /\ \E c1, c2 \in ShoeRanks : hands' = << <<c1, c2>> >>
                /\ deck' = [deck EXCEPT ![a] = @ - 2]
                /\ h' = 1
                /\ doubled' = {}
                /\ handsSeen' = 0
                /\ pc' = "query"
                /\ UNCHANGED <<config, bench, count, decksRem, trueCount, money, dealer, seat,
                               decision, dealerSeen, round>>

\* decision = player.make_decision(hand, dealer_hand.cards[0])
Query ==
    /\ pc = "query"
    /\ decision' \in MakeDecision(seat, hands[h], dealer[1])
    /\ pc' = "apply"
    /\ UNCHANGED <<config, bench, table, money, dealer, seat, hands, h, history, round>>

\* break: on to the next hand of player_hands, or to the dealer's turn
NextHandPc == IF h < Len(hands) THEN "query" ELSE "dealer"
NextHandIx == IF h < Len(hands) THEN h + 1 ELSE h

\* mutant of ApplyHit: the card dealt on a Hit stays in the shoe
ApplyHitKeepsShoe ==
    /\ pc = "apply"
    /\ decision = "Hit"
    /\ LET a == aiOf[seat]
       IN  IF deck[a] < 1 THEN Raise(a)
           ELSE /\ \E c \in ShoeRanks :
                     LET hand == Append(hands[h], c)
                     IN  /\ hands' = [hands EXCEPT ![h] = hand]
                         /\ pc' = IF HandValue(hand) > BustAbove THEN NextHandPc ELSE "query"
                         /\ h' = IF HandValue(hand) > BustAbove THEN NextHandIx ELSE h
                /\ UNCHANGED <<config, bench, table, money, dealer, seat, decision, history,
                               round>>

\* decision == "Hit": one card, and the hand is over when it busts
ApplyHit ==
    /\ pc = "apply"
    /\ decision = "Hit"
    /\ LET a == aiOf[seat]
       IN  IF deck[a] < 1 THEN Raise(a)
           ELSE /\ \E c \in ShoeRanks :
                     LET hand == Append(hands[h], c)
                     IN  /\ hands' = [hands EXCEPT ![h] = hand]
                         /\ pc' = IF HandValue(hand) > BustAbove THEN NextHandPc ELSE "query"
                         /\ h' = IF HandValue(hand) > BustAbove THEN NextHandIx ELSE h
                /\ deck' = [deck EXCEPT ![a] = @ - 1]
                /\ UNCHANGED <<config, bench, count, decksRem, trueCount, money, dealer, seat,
                               decision, history, round>>

\* decision == "Stand": the hand is over
ApplyStand ==
    /\ pc = "apply"
    /\ decision = "Stand"
    /\ pc' = NextHandPc
    /\ h' = NextHandIx
    /\ UNCHANGED <<config, bench, table, money, dealer, seat, hands, decision, history, round>>

\* decision == "Double": on a 2-card hand the seat's bet_size is doubled, one
\* card is drawn and the hand is over; on any other hand nothing is done and
\* the loop queries again
ApplyDouble ==
    /\ pc = "apply"
    /\ decision = "Double"
    /\ LET a == aiOf[seat]
       IN  IF Len(hands[h]) = 2
           THEN IF deck[a] < 1
                THEN /\ pc' = "error"
                     /\ deck' = [deck EXCEPT ![a] = 0]
                     /\ betSize' = [betSize EXCEPT ![seat] = @ * 2]
                     /\ UNCHANGED <<config, bench, count, decksRem, trueCount, bankroll, results,
                                    turn, history, round>>
                ELSE /\ betSize' = [betSize EXCEPT ![seat] = @ * 2]
                     /\ \E c \in ShoeRanks : hands' = [hands EXCEPT ![h] = Append(@, c)]
                     /\ deck' = [deck EXCEPT ![a] = @ - 1]
                     /\ doubled' = doubled \cup {h}
                     /\ pc' = NextHandPc
                     /\ h' = NextHandIx
                     /\ UNCHANGED <<config, bench, count, decksRem, trueCount, bankroll, results,
                                    dealer, seat, decision, dealerSeen, handsSeen, round>>
           ELSE /\ pc' = "query"
                /\ UNCHANGED <<config, bench, table, money, turn, history, round>>

\* decision == "Split": a hand that can be split, on a seat with fewer than 4
\* hands, gives its last card to a new hand and both draw one card; otherwise
\* `continue`: the loop queries again
ApplySplit ==
    /\ pc = "apply"
    /\ decision = "Split"
    /\ LET a == aiOf[seat]
       IN  IF CanSplit(hands[h]) /\ Len(hands) < SplitLimit
           THEN IF deck[a] < 2 THEN Raise(a)
                ELSE /\ \E c1, c2 \in ShoeRanks :
                          hands' = Append([hands EXCEPT ![h] = <<hands[h][1], c1>>],
                                          <<hands[h][2], c2>>)
                     /\ deck' = [deck EXCEPT ![a] = @ - 2]
                     /\ pc' = "query"
                     /\ UNCHANGED <<config, bench, count, decksRem, trueCount, money, dealer, seat,
                                    h, decision, history, round>>
           ELSE /\ pc' = "query"
                /\ UNCHANGED <<config, bench, table, money, turn, history, round>>

\* Dealer's turn, inside the loop over players: under European rules one more
\* card from the current player's shoe
DealerSecond ==
    /\ pc = "dealer"
    /\ LET a == aiOf[seat]
       IN  IF ~european
           THEN /\ pc' = "dealerDraw"
                /\ UNCHANGED <<config, bench, table, money, turn, history, round>>
           ELSE IF deck[a] < 1 THEN Raise(a)
           ELSE /\ \E c \in ShoeRanks : dealer' = Append(dealer, c)
                /\ dealerSeen' = Append(dealerSeen, 0)
                /\ deck' = [deck EXCEPT ![a] = @ - 1]
                /\ pc' = "dealerDraw"
                /\ UNCHANGED <<config, bench, count, decksRem, trueCount, money, seat, hands, h,
                               decision, doubled, handsSeen, round>>

\* while dealer_hand.value() < 17: draw from the current player's shoe
DealerDraw ==
    /\ pc = "dealerDraw"
    /\ HandValue(dealer) < DealerStands
    /\ LET a == aiOf[seat]
       IN  IF deck[a] < 1 THEN Raise(a)
           ELSE /\ \E c \in ShoeRanks : dealer' = Append(dealer, c)
                /\ dealerSeen' = Append(dealerSeen, 0)
                /\ deck' = [deck EXCEPT ![a] = @ - 1]
                /\ UNCHANGED <<config, bench, count, decksRem, trueCount, money, seat, hands, h,
                               decision, doubled, handsSeen, round, pc>>

DealerDone ==
    /\ pc = "dealerDraw"
    /\ HandValue(dealer) >= DealerStands
    /\ pc' = "settle"
    /\ h' = 1
    /\ UNCHANGED <<config, bench, table, money, dealer, seat, hands, decision, history, round>>

\* mutant of Outcome: a two-card 21 that wins is paid 3 to 2
OutcomeWithBonus(hand, dealerCards, bet) ==
    IF HandValue(hand) > BustAbove THEN -bet
    ELSE IF HandValue(dealerCards) > BustAbove \/ HandValue(hand) > HandValue(dealerCards)
    THEN (IF Len(hand) = 2 /\ HandValue(hand) = BustAbove THEN (3 * bet) \div 2 ELSE bet)
    ELSE IF HandValue(hand) < HandValue(dealerCards) THEN -bet
    ELSE 0

\* the change of player.bankroll for one hand, at the seat's current bet_size
Outcome(hand, dealerCards, bet) ==
    IF HandValue(hand) > BustAbove THEN -bet
    ELSE IF HandValue(dealerCards) > BustAbove \/ HandValue(hand) > HandValue(dealerCards)
    THEN bet
    ELSE IF HandValue(hand) < HandValue(dealerCards) THEN -bet
    ELSE 0

\* for hand in player_hands: one hand's outcome
Settle ==
    /\ pc = "settle"
    /\ bankroll' = [bankroll EXCEPT ![seat] = @ + Outcome(hands[h], dealer, betSize[seat])]
    /\ IF h < Len(hands)
       THEN h' = h + 1 /\ pc' = "settle"
       ELSE h' = h /\ pc' = "reset"
    /\ UNCHANGED <<config, bench, table, betSize, results, dealer, seat, hands, decision,
                   history, round>>

\* player.bet_size = 10
ResetBetSize ==
    /\ pc = "reset"
    /\ betSize' = [betSize EXCEPT ![seat] = ResetBet]
    /\ pc' = "update"
    /\ UNCHANGED <<config, bench, table, bankroll, results, turn, history, round>>

\* for card in dealer_hand.cards + [the player's cards]: card_counter.update(card)
UpdateCounter ==
    /\ pc = "update"
    /\ LET a == aiOf[seat]
           cards == dealer \o Flatten(hands)
           c == count[a] + SumTags(system[a], cards)
           dr == DecksAfter(decksRem[a], Len(cards))
       IN  /\ count' = [count EXCEPT ![a] = c]
           /\ decksRem' = [decksRem EXCEPT ![a] = dr]
           /\ trueCount' = [trueCount EXCEPT ![a] = <<c, dr>>]
    /\ dealerSeen' = [i \in 1..Len(dealer) |-> dealerSeen[i] + 1]
    /\ handsSeen' = handsSeen + 1
    /\ IF seat < nSeats
       THEN seat' = seat + 1 /\ pc' = "seat"
       ELSE seat' = seat /\ pc' = "append"
    /\ UNCHANGED <<config, bench, deck, money, dealer, hands, h, decision, doubled, round>>

\* mutant of AppendResult: the entry repeats the first seat's bankroll
AppendFirstSeat ==
    /\ pc = "append"
    /\ results' = Append(results, [s \in 1..nSeats |-> bankroll[1]])
    /\ round' = round + 1
    /\ pc' = "round"
    /\ UNCHANGED <<config, bench, table, bankroll, betSize, turn, history>>

\* results.append(tuple(player.bankroll for player in players))
AppendResult ==
    /\ pc = "append"
    /\ results' = Append(results, bankroll)
    /\ round' = round + 1
    /\ pc' = "round"
    /\ UNCHANGED <<config, bench, table, bankroll, betSize, turn, history>>

Next ==
    \/ RoundLoop
    \/ Reshuffle
    \/ NoReshuffle
    \/ DealDealer
    \/ DealSeat
    \/ Query
    \/ ApplyHit
    \/ ApplyStand
    \/ ApplyDouble
    \/ ApplySplit
    \/ DealerSecond
    \/ DealerDraw
    \/ DealerDone
    \/ Settle
    \/ ResetBetSize
    \/ UpdateCounter
    \/ AppendResult

\* skill_level 1.0: make_decision always returns recommend_action's answer
Perfect == SkillUnit

\* The campaigns explored.  Seats of perfect skill play several seats or
\* several rounds on shoes of two ranks; seats of noisy skill play one round;
\* the long campaign is played card for card the same way in every round.
Init ==
    \/ InitWith(1..MaxSeats, BOOLEAN, {Perfect}, {FALSE}, BetChoices, DeckChoices,
                {"Hi-Lo"}, BOOLEAN, {1}, {{"8", "K"}, {"6", "K"}})
    \/ InitWith({1}, {TRUE}, {Perfect}, {FALSE}, {ResetBet}, DeckChoices,
                {"Hi-Lo"}, BOOLEAN, {MaxRounds}, {{"8", "K"}, {"6", "K"}})
    \/ InitWith({1, 2}, BOOLEAN, {Noisy}, {FALSE}, BetChoices, DeckChoices,
                {"Hi-Lo"}, BOOLEAN, {1}, {{"K"}})
    \/ InitWith({1}, {TRUE}, {Noisy}, {FALSE}, {ResetBet}, {ReshuffleDecks},
                {"Hi-Lo"}, {FALSE}, {1}, {{"8", "K"}})
    \/ InitWith({2}, {FALSE}, {Perfect}, {FALSE}, {ResetBet}, {1},
                {"Hi-Lo"}, {FALSE}, {LongRounds}, {{"K"}})
    \/ InitWith({1}, {TRUE}, {Perfect}, {FALSE}, {ResetBet}, {ReshuffleDecks},
                {"Hi-Lo"}, {FALSE}, {1}, {{"A", "K"}})

Spec == Init /\ [][Next]_vars

\* Seats of perfect skill: the policy is a function of the state, and the
\* interpreter always takes the next step of simulate_game.
FairInit ==
    \/ InitWith({1}, {TRUE}, {Perfect}, {FALSE}, {ResetBet}, {1},
                {"Hi-Lo"}, {FALSE}, {1}, {{"5", "8", "K"}})
    \/ InitWith({1}, {TRUE}, {Perfect}, {FALSE}, {ResetBet}, {1},
                {"Hi-Lo"}, {FALSE}, {MaxRounds}, {{"8", "K"}})

FairSpec == FairInit /\ [][Next]_vars /\ WF_vars(Next)

\* self.ml_model.predict([features]) raises: make_decision has no handler, nor
\* has simulate_game, so the exception ends simulate_game
PredictFails ==
    /\ pc = "query"
    /\ mlModel[seat]
    /\ pc' = "error"
    /\ UNCHANGED <<config, bench, table, money, turn, history, round>>

MlNext == Next \/ PredictFails

\* Campaigns of one seat that holds a classifier, on shoes dealing one rank.
MlInit ==
    \/ InitWith({1}, {TRUE}, {Noisy, Perfect}, {TRUE}, {ResetBet}, {ReshuffleDecks},
                {"Hi-Lo"}, BOOLEAN, {1}, {{"K"}, {"6"}})
    \/ InitWith({1}, {TRUE}, {Perfect}, {TRUE}, {ResetBet}, {1},
                {"Hi-Lo"}, {FALSE}, {MaxRounds}, {{"K"}})

MlSpec == MlInit /\ [][MlNext]_vars

\* ------------------------------------- methods called on their own
\* Hand.value, BlackjackAI.basic_strategy and calculate_bust_probability, each
\* called once on a hand (hands[1]), a dealer up-card (dealer[1]) and the
\* cards left in the shoe (shoe) of one BlackjackAI
AllRanks == {RANKS[i] : i \in 1..Len(RANKS)}
AceRanks == {"A", "9", "K"}
CalcRanks == {"A", "5", "6", "K"}
\* one up-card of each band the totals table tells apart: 2-3, 4-6, 10, others
UpRanks == {"3", "6", "K", "A"}

SeqsOf(S, lo, hi) == UNION {[1..n -> S] : n \in lo..hi}

\* one BlackjackAI and one seat of perfect skill about to call `method` on a
\* hand, an up-card and a shoe of the sets given, the counter being of a system
\* and in a state <<count, decks_remaining, true_count>> of the sets given
CallState(method, handSet, upSet, shoeSet, systemSet, counterSet) ==
    /\ nSeats = 1
    /\ aiOf = <<1>>
    /\ skill = <<SkillUnit>>
    /\ mlModel = <<FALSE>>
    /\ baseBet = <<ResetBet>>
    /\ numDecks = <<ReshuffleDecks>>
    /\ \E sy \in systemSet : system = <<sy>>
    /\ european = FALSE
    /\ numRounds = 0
    /\ shoe \in shoeSet
    /\ ShoeRanks = {shoe[i] : i \in 1..Len(shoe)}
    /\ deck = <<Len(shoe)>>
    /\ \E counter \in counterSet :
          /\ count = <<counter[1]>>
          /\ decksRem = <<counter[2]>>
          /\ trueCount = <<counter[3]>>
    /\ bankroll = <<StartBankroll>>
    /\ betSize = baseBet
    /\ round = 0
    /\ \E cards \in handSet : hands = <<cards>>
    /\ dealer \in upSet
    /\ seat = 1
    /\ h = 1
    /\ decision = "none"
    /\ results = <<>>
    /\ doubled = {}
    /\ dealerSeen = <<>>
    /\ handsSeen = 0
    /\ ret = <<"none">>
    /\ pc = method

\* CardCounter.__init__: count 0, decks_remaining 6, true_count 0
FreshCounter == <<0, CounterDecks * CardsPerDeck, <<0, 1>>>>

\* the same with the counter as constructed, of the default system
CallWith(method, handSet, upSet, shoeSet) ==
    CallState(method, handSet, upSet, shoeSet, {"Hi-Lo"}, {FreshCounter})

\* hand.value()
CallValue ==
    /\ pc = "Hand.value"
    /\ ret' = <<"Hand.value", HandValue(hands[1])>>
    /\ pc' = "returned"
    /\ UNCHANGED <<config, table, money, turn, history, shoe, round>>

\* ai.basic_strategy(hand, up_card)
CallBasicStrategy ==
    /\ pc = "basic_strategy"
    /\ ret' = <<"basic_strategy", BasicStrategy(hands[1], dealer[1])>>
    /\ pc' = "returned"
    /\ UNCHANGED <<config, table, money, turn, history, shoe, round>>

\* ai.calculate_bust_probability(hand)
CallBustProbability ==
    /\ pc = "calculate_bust_probability"
    /\ ret' = <<"calculate_bust_probability", BustProbability(hands[1], shoe)>>
    /\ pc' = "returned"
    /\ UNCHANGED <<config, table, money, turn, history, shoe, round>>

\* ai.simulate_dealer_hand(up_card, n): the trials run on the live shoe; an
\* empty shoe raises ValueError at the first draw and n = 0 raises
\* ZeroDivisionError at the return statement
CallSimulateDealerHand ==
    /\ pc = "simulate_dealer_hand"
    /\ \E n \in 0..MaxTrials :
          LET sim == SimulateDealerHand(dealer[1], shoe, n)
          IN  /\ shoe' = sim.cards
              /\ deck' = <<Len(sim.cards)>>
              /\ IF sim.raised \/ n = 0
                 THEN pc' = "error" /\ ret' = ret
                 ELSE /\ pc' = "returned"
                      /\ ret' = <<"simulate_dealer_hand", <<sim.busts, n>>, sim.drawn>>
    /\ UNCHANGED <<config, count, decksRem, trueCount, money, turn, history, round>>

\* ai.recommend_action(hand, up_card) of advanced-blackjack-ai.py: basic_strategy,
\* calculate_bust_probability and simulate_dealer_hand (of MaxTrials trials, on
\* the live shoe) are called first, then the chain decides
CallRecommendActionAi ==
    /\ pc = "recommend_action"
    /\ LET bustProb == BustProbability(hands[1], shoe)
           sim == SimulateDealerHand(dealer[1], shoe, MaxTrials)
       IN  /\ shoe' = sim.cards
           /\ deck' = <<Len(sim.cards)>>
           /\ IF sim.raised
              THEN pc' = "error" /\ ret' = ret
              ELSE /\ pc' = "returned"
                   /\ ret' = <<"recommend_action",
                               RecommendActionAi(hands[1], dealer[1], trueCount[1], bustProb,
                                                 sim.busts, MaxTrials)>>
    /\ UNCHANGED <<config, count, decksRem, trueCount, money, turn, history, round>>

\* card_counter.update(card) for the next card of a list of cards (hands[1])
CallUpdate ==
    /\ pc = "CardCounter.update"
    /\ LET c == count[1] + CountTag(system[1], hands[1][h])
           dr == DecksAfter(decksRem[1], 1)
       IN  /\ count' = <<c>>
           /\ decksRem' = <<dr>>
           /\ trueCount' = << <<c, dr>> >>
    /\ ret' = <<"CardCounter.update", h>>
    /\ h' = h + 1
    /\ pc' = IF h < Len(hands[1]) THEN pc ELSE "returned"
    /\ UNCHANGED <<config, deck, money, dealer, seat, hands, decision, history, shoe, round>>

\* ai.update_count(card) of advanced-blackjack-ai.py: card_count changes by the
\* Hi-Lo tag, then true_count = card_count / (len(self.deck.cards) // 52), which
\* raises ZeroDivisionError when the shoe holds fewer than 52 cards
CallUpdateCount ==
    /\ pc = "update_count"
    /\ LET c == count[1] + CountTag("Hi-Lo", hands[1][1])
           decks == deck[1] \div CardsPerDeck
       IN  /\ count' = <<c>>
           /\ IF decks = 0
              THEN pc' = "error" /\ UNCHANGED <<trueCount, ret>>
              ELSE /\ trueCount' = << <<c, decks * CardsPerDeck>> >>
                   /\ ret' = <<"update_count", c>>
                   /\ pc' = "returned"
    /\ UNCHANGED <<config, deck, decksRem, money, turn, history, shoe, round>>

CalcNext ==
    \/ CallUpdate
    \/ CallUpdateCount
    \/ CallValue
    \/ CallBasicStrategy
    \/ CallBustProbability
    \/ CallSimulateDealerHand
    \/ CallRecommendActionAi

\* Deck(6) before the shuffle: for each deck, each rank, each suit
FreshShoe ==
    [i \in 1..(ReshuffleDecks * CardsPerDeck) |-> RANKS[(((i - 1) \div SUITS) % Len(RANKS)) + 1]]

\* the orders of a full shoe that random.shuffle can leave, one for each card
\* of the first deck brought to the top (the end of the list)
FullShoes ==
    {[i \in 1..Len(FreshShoe) |->
        IF i = top THEN FreshShoe[Len(FreshShoe)]
        ELSE IF i = Len(FreshShoe) THEN FreshShoe[top]
        ELSE FreshShoe[i]] : top \in 1..CardsPerDeck}

\* a counter whose true_count is above 2: count 13 with 6 decks remaining
HighCounter ==
    LET c == 2 * CounterDecks + 1
        dr == CounterDecks * CardsPerDeck
    IN  <<c, dr, <<c, dr>>>>

\* a counter one update above the floor of decks_remaining (1 + 1/52 decks)
LowCounter == <<0, CardsPerDeck + 1, <<0, CardsPerDeck + 1>>>>

\* Hands of up to MaxHandLen cards of any rank (longer ones of Aces, 9s and
\* Kings for Hand.value), every up-card (one of each band for recommend_action),
\* shoes of up to MaxShoeLen cards and full shoes.
CalcInit ==
    \/ CallWith("Hand.value", SeqsOf(AllRanks, 1, MaxHandLen), {<<>>}, {<<>>})
    \/ CallWith("Hand.value", SeqsOf(AceRanks, MaxHandLen + 1, LongHandLen), {<<>>}, {<<>>})
    \/ CallWith("basic_strategy", SeqsOf(AllRanks, 2, MaxHandLen), SeqsOf(AllRanks, 1, 1), {<<>>})
    \/ CallWith("calculate_bust_probability", SeqsOf(CalcRanks, 1, MaxHandLen), {<<>>},
                SeqsOf(CalcRanks, 0, MaxShoeLen))
    \/ CallWith("simulate_dealer_hand", {<<>>}, SeqsOf(AllRanks, 1, 1),
                SeqsOf(CalcRanks, 0, MaxShoeLen) \cup FullShoes)
    \/ CallState("recommend_action", SeqsOf(CalcRanks, 2, MaxHandLen), SeqsOf(UpRanks, 1, 1),
                 SeqsOf(CalcRanks, 0, MaxShoeLen), {"Hi-Lo"}, {FreshCounter, HighCounter})
    \/ CallState("CardCounter.update", SeqsOf(AllRanks, 1, MaxShoeLen), {<<>>}, {<<>>},
                 {"Hi-Lo", "KO", "Omega II"}, {FreshCounter, LowCounter})
    \/ CallWith("update_count", SeqsOf(AllRanks, 1, 1), {<<>>},
                SeqsOf(CalcRanks, 0, MaxShoeLen) \cup FullShoes)

CalcSpec == CalcInit /\ [][CalcNext]_vars

\* ---------------------------------------------------------------- claims
\* a Double or Split the code cannot carry out
IllegalRequest ==
    \/ decision = "Double" /\ Len(hands[h]) # 2
    \/ decision = "Split" /\ (~CanSplit(hands[h]) \/ Len(hands) >= SplitLimit)

\* C1: with two or more seats the dealer draws no card beyond the initial deal,
\* and no bankroll is settled, until every seat has finished all its hands.
C1_PhaseOrder ==
    [][(nSeats >= 2 /\ ((pc # "deal" /\ Len(dealer') > Len(dealer)) \/ bankroll' # bankroll))
          => (seat = nSeats /\ pc \in {"dealer", "dealerDraw", "settle"})]_vars

\* C2: a Double or Split that cannot be carried out is handled as a Hit: exactly
\* one card is drawn for that hand before the policy is queried again.
C2_IllegalBecomesHit ==
    [][(pc = "apply" /\ IllegalRequest)
          => /\ Len(hands'[h]) = Len(hands[h]) + 1
             /\ deck'[aiOf[seat]] = deck[aiOf[seat]] - 1]_vars

\* C3: every campaign ends: it returns its results or raises an error.
C3_CampaignEnds == <>(pc \in {"done", "error"})

\* C4: no draw is made from an empty shoe.
C4_NoEmptyDraw == pc # "error"

\* C5: every card dealt in a round is passed to the counter update exactly once,
\* and only after the settlement of the round (of every seat).
C5_CountedOnce ==
    /\ pc = "update" => seat = nSeats
    /\ pc = "append" => handsSeen = 1 /\ \A i \in 1..Len(dealer) : dealerSeen[i] = 1

\* C6: a hand that was not doubled is settled at the seat's base bet, also when
\* another hand of the seat was doubled.
C6_OnlyDoubledHandPaysDouble ==
    [][(pc = "settle" /\ h \notin doubled)
          => bankroll'[seat] - bankroll[seat] \in {-baseBet[seat], 0, baseBet[seat]}]_vars

\* C7: the change of the bankroll for one hand is -bet, 0 or +bet, or -2*bet or
\* +2*bet when that hand was doubled, bet being the seat's base bet.
C7_DeltaMagnitude ==
    [][pc = "settle"
          => bankroll'[seat] - bankroll[seat] \in
                {-baseBet[seat], 0, baseBet[seat]} \cup
                (IF h \in doubled THEN {-2 * baseBet[seat], 2 * baseBet[seat]} ELSE {})]_vars

\* C8: after a seat's settlement its bet_size is the bet it was constructed with.
C8_BetRestored == pc \in {"update", "append"} => betSize[seat] = baseBet[seat]

\* C9: a shoe of fewer than 52 cards at the start of a round is replaced by one of
\* numDecks * 52 cards; a shoe of 52 cards or more is not replaced.
C9_ReshuffleSize ==
    [][pc = "check"
          => deck'[Ai0] = IF deck[Ai0] < ReshuffleBelow
                           THEN numDecks[Ai0] * CardsPerDeck
                           ELSE deck[Ai0]]_vars

\* C10: the reshuffle step leaves count and true_count as they were; count
\* changes only in the counter update, and simulate_game never resets it.
C10_ReshuffleKeepsCount ==
    [][/\ pc = "check" => (count' = count /\ trueCount' = trueCount)
       /\ count' # count => pc = "update"
       /\ trueCount' # trueCount => pc = "update"]_vars

\* C10 witness: a shoe replaced by the reshuffle step (a one-deck shoe never
\* holds 312 cards otherwise) while the counter holds a nonzero count.
C10_Witness ==
    /\ pc = "deal"
    /\ numDecks[Ai0] = 1
    /\ deck[Ai0] = NewShoe
    /\ count[Ai0] # 0
    /\ trueCount[Ai0][1] # 0

\* C11: in every state the counter's true_count equals count divided by
\* decks_remaining (also between a reshuffle and the next counter update).
C11_TrueCountIsQuotient ==
    \A a \in 1..nSeats : trueCount[a][1] * decksRem[a] = count[a] * trueCount[a][2]

\* C12: under European rules the dealer holds one card while seats are dealt and
\* play, and its second card is drawn once a round, after the last seat; under
\* American rules the dealer holds two cards before the first decision.
C12_HoleCard ==
    /\ (european /\ pc \in {"seat", "query", "apply"}) => Len(dealer) = 1
    /\ (european /\ pc = "dealer") => seat = nSeats
    /\ (~european /\ seat = 1 /\ pc \in {"seat", "query", "apply"}) => Len(dealer) = 2

\* every seat holds a BlackjackAI of its own, as BlackjackGUI.run_simulation
\* builds the seats
OwnAiPerSeat == \A s \in 1..nSeats : aiOf[s] = s

\* C13: at a table of several seats built as run_simulation builds it, every
\* draw is from, and every counter update is to, the one shoe and counter the
\* reshuffle step checks and replaces (those of players[0].ai).
C13_OneShoeOneCounter ==
    [][(nSeats >= 2 /\ OwnAiPerSeat)
          => \A a \in 1..nSeats :
                (deck'[a] # deck[a] \/ count'[a] # count[a] \/ decksRem'[a] # decksRem[a])
                    => a = Ai0]_vars

\* C14: each hand is settled by its value and the dealer's alone: a bust loses
\* the bet (also when the dealer busts); otherwise a dealer bust or a higher
\* value wins the bet; otherwise a lower value loses the bet; equal values
\* change nothing.  The bet is the seat's bet_size at settlement; a two-card 21
\* wins the bet like any other win; no other seat's bankroll changes.
C14_SettlementRule ==
    [][pc = "settle"
          => LET pv == HandValue(hands[h])
                 dv == HandValue(dealer)
                 delta == bankroll'[seat] - bankroll[seat]
             IN  /\ pv > 21 => delta = -betSize[seat]
                 /\ (pv <= 21 /\ (dv > 21 \/ pv > dv)) => delta = betSize[seat]
                 /\ (pv <= 21 /\ dv <= 21 /\ pv < dv) => delta = -betSize[seat]
                 /\ (pv <= 21 /\ pv = dv) => delta = 0
                 /\ \A s \in 1..nSeats : s # seat => bankroll'[s] = bankroll[s]]_vars

\* C14 witness: a two-card 21 (A,K) that beat a dealer's 20 and was paid the bet,
\* 1 to 1.
C14_Witness ==
    /\ pc = "reset"
    /\ hands = << <<"A", "K">> >>
    /\ HandValue(dealer) = 20
    /\ betSize[seat] = ResetBet
    /\ bankroll[seat] = StartBankroll + ResetBet

\* C15: an action make_decision returns that is not recommend_action's answer
\* (a skill draw at or above skill_level) is legal: Double only on a hand of 2
\* cards, Split only on a hand that can be split.
C15_NoiseIsLegal ==
    [][(pc = "query" /\ pc' = "apply"
        /\ decision' # RecommendAction(hands[h], dealer[1], trueCount[aiOf[seat]]))
          => /\ decision' = "Double" => Len(hands[h]) = 2
             /\ decision' = "Split" => CanSplit(hands[h])]_vars

\* C16: with a classifier configured, every call of make_decision returns an
\* action, also when predict fails: the campaign goes on to apply a decision.
C16_PredictFailureContained ==
    [][(pc = "query" /\ mlModel[seat]) => (pc' = "apply" /\ decision' \in Actions)]_vars

\* the total of a hand with every Ace counted as 1
RECURSIVE HardTotal(_)
HardTotal(cards) ==
    IF cards = <<>> THEN 0
    ELSE (IF Head(cards) = "A" THEN 1 ELSE CardValue(Head(cards))) + HardTotal(Tail(cards))

\* the highest total not above 21 with each Ace counted as 1 or 11, or the total
\* with every Ace as 1 when there is none
BestTotal(cards) ==
    LET reach == {HardTotal(cards) + 10 * k : k \in 0..CountAces(cards)}
        good == {v \in reach : v <= 21}
    IN  IF good = {} THEN HardTotal(cards) ELSE CHOOSE v \in good : \A w \in good : w <= v

\* C17: Hand.value() is the highest total not above 21 obtainable by counting
\* each Ace as 1 or 11, or the all-Aces-as-1 total when there is none; it is the
\* sum of the card values less 10 for at most as many times as the hand has Aces.
C17_ValueIsBestTotal ==
    (pc = "returned" /\ ret[1] = "Hand.value")
        => /\ ret[2] = BestTotal(hands[1])
           /\ \E k \in 0..CountAces(hands[1]) : ret[2] = SumValues(hands[1]) - 10 * k

\* C17 witness: Hand.value() has returned 21 for A,A,9.
C17_Witness ==
    /\ pc = "returned"
    /\ ret[1] = "Hand.value"
    /\ hands[1] = <<"A", "A", "9">>
    /\ ret[2] = 21

\* C18: for every up-card basic_strategy returns Split for a pair of 8s and for
\* a pair of Aces, and Stand for a pair of 10s, Jacks, Queens or Kings.
C18_SplitEightsAndAces ==
    (pc = "returned" /\ ret[1] = "basic_strategy" /\ CanSplit(hands[1]))
        => /\ hands[1][1] \in {"8", "A"} => ret[2] = "Split"
           /\ hands[1][1] \in {"10", "J", "Q", "K"} => ret[2] = "Stand"

\* C19: for a hand that can be split basic_strategy never returns Double: the
\* split table alone decides it.
C19_SplitTableAlone ==
    (pc = "returned" /\ ret[1] = "basic_strategy" /\ CanSplit(hands[1])) => ret[2] # "Double"

\* the cards of the shoe that make the hand's value exceed 21
BustingCards(cards, deckCards) ==
    {i \in 1..Len(deckCards) : HandValue(Append(cards, deckCards[i])) > 21}

\* C20: for a hand of value at most 21, calculate_bust_probability returns the
\* fraction of the shoe's cards that, added to the hand, make Hand.value()
\* exceed 21, and 0 for an empty shoe.
C20_BustProbabilityExact ==
    (pc = "returned" /\ ret[1] = "calculate_bust_probability" /\ HandValue(hands[1]) <= 21)
        => IF Len(shoe) = 0 THEN ret[2][1] = 0
           ELSE ret[2][1] * Len(shoe) = Cardinality(BustingCards(hands[1], shoe)) * ret[2][2]

\* C21: recommend_action of advanced-blackjack-ai.py returns Stand when the true
\* count is above 2 with a hand of 16 against an up-card of 10, or the bust
\* probability is above 0.6, or the dealer bust probability is above 0.5 with a
\* hand of 12 or more; otherwise it returns what basic_strategy returns.
C21_OverlayOrder ==
    (pc = "returned" /\ ret[1] = "recommend_action")
        => LET bust == BustProbability(hands[1], shoe)
               dealerBusts == SimulateDealerHand(dealer[1], shoe, MaxTrials).busts
               countRule == /\ TrueCountAbove2(trueCount[1])
                            /\ HandValue(hands[1]) = 16
                            /\ CardValue(dealer[1]) = 10
               bustRule == bust[1] * 10 > 6 * bust[2]
               dealerRule == dealerBusts * 2 > MaxTrials /\ HandValue(hands[1]) >= 12
           IN  IF countRule \/ bustRule \/ dealerRule
               THEN ret[2] = "Stand"
               ELSE ret[2] = BasicStrategyAi(hands[1], dealer[1])

\* C21 witness: the dealer-bust rule alone turned a Hit of basic_strategy (K,5
\* against a 10, true count 0, shoe of a 5 under a 6) into Stand.
C21_Witness ==
    /\ pc = "returned"
    /\ ret[1] = "recommend_action"
    /\ hands[1] = <<"K", "5">>
    /\ dealer = <<"K">>
    /\ shoe = <<"5", "6">>
    /\ trueCount[1][1] = 0
    /\ BasicStrategyAi(hands[1], dealer[1]) = "Hit"
    /\ ret[2] = "Stand"

\* the cards of a list as a function from rank to number of cards
CardsByRank(cards) ==
    [r \in AllRanks |-> Cardinality({i \in 1..Len(cards) : cards[i] = r})]

\* C22: simulate_dealer_hand leaves the shoe as it found it: the same cards in
\* the same number, for every up-card, every non-empty shoe and every number
\* of trials.
C22_ShoeUnchanged ==
    [][(pc = "simulate_dealer_hand" /\ shoe # <<>>)
          => /\ Len(shoe') = Len(shoe)
             /\ CardsByRank(shoe') = CardsByRank(shoe)]_vars

\* C22 witness: simulate_dealer_hand has returned after 3 trials of two draws
\* each (up-card 2, a King on top) and the shoe is the 2 cards it was.
C22_Witness ==
    /\ pc = "returned"
    /\ ret[1] = "simulate_dealer_hand"
    /\ dealer = <<"2">>
    /\ ret[2][2] = 3
    /\ Len(ret[3]) = 6
    /\ shoe = <<"5", "K">>

\* C23: on every order of a full shoe simulate_dealer_hand returns a bust
\* fraction above 0.35 for an up-card of value 6 and below 0.25 for an up-card
\* of value 10.
C23_BustFractionBands ==
    (pc = "returned" /\ ret[1] = "simulate_dealer_hand" /\ Len(shoe) = Len(FreshShoe))
        => /\ CardValue(dealer[1]) = 6 => ret[2][1] * 100 > 35 * ret[2][2]
           /\ CardValue(dealer[1]) = 10 => ret[2][1] * 100 < 25 * ret[2][2]

\* the hand of a dealer who draws the same card again and again up to 17
RECURSIVE SameCardHand(_, _)
SameCardHand(hand, card) ==
    IF HandValue(hand) >= 17 THEN hand ELSE SameCardHand(Append(hand, card), card)

\* C28: every draw inside simulate_dealer_hand returns the card that was on top
\* of the shoe at the call, and the estimate is 1 when the up-card with that
\* card alone, drawn again and again, ends above 21, and 0 otherwise: never a
\* value strictly between 0 and 1.
C28_SameCardEveryDraw ==
    [][(pc = "simulate_dealer_hand" /\ pc' = "returned")
          => LET top == shoe[Len(shoe)]
                 busts == HandValue(SameCardHand(dealer, top)) > 21
             IN  /\ \A i \in 1..Len(ret'[3]) : ret'[3][i] = top
                 /\ ret'[2][1] = IF busts THEN ret'[2][2] ELSE 0]_vars

\* C28 witness: three trials on a shoe with a 5 under a King and up-card 6 have
\* drawn the King and never the 5, and the estimate is 3/3.
C28_Witness ==
    /\ pc = "returned"
    /\ ret[1] = "simulate_dealer_hand"
    /\ dealer = <<"6">>
    /\ shoe = <<"5", "K">>
    /\ ret[2] = <<3, 3>>
    /\ ret[3] = <<"K", "K", "K", "K", "K", "K">>

\* the tag of a rank in a counting system
TagOf(sys, rank) ==
    LET tens == {"10", "J", "Q", "K", "A"}
    IN  IF sys = "Hi-Lo"
        THEN (IF rank \in tens THEN -1 ELSE IF rank \in {"2", "3", "4", "5", "6"} THEN 1 ELSE 0)
        ELSE IF sys = "KO"
        THEN (IF rank \in tens THEN -1
              ELSE IF rank \in {"2", "3", "4", "5", "6", "7"} THEN 1 ELSE 0)
        ELSE (IF rank \in tens THEN -2
              ELSE IF rank \in {"2", "3", "7"} THEN 1
              ELSE IF rank \in {"4", "5", "6"} THEN 2
              ELSE IF rank = "9" THEN -1 ELSE 0)

\* the sum, over the first n ranks of RANKS, of the tag times the number of
\* cards of that rank
RECURSIVE TagTotal(_, _, _)
TagTotal(sys, byRank, n) ==
    IF n = 0 THEN 0
    ELSE TagOf(sys, RANKS[n]) * byRank[RANKS[n]] + TagTotal(sys, byRank, n - 1)

\* C24: after any sequence of calls of CardCounter.update, count is the sum of
\* the tags of the cards seen in the counter's system, whatever their order:
\* each call changes count by the tag of its card.
C24_CountIsTagSum ==
    (pc = "CardCounter.update" \/ (pc = "returned" /\ ret[1] = "CardCounter.update"))
        => count[1] = TagTotal(system[1], CardsByRank(SubSeq(hands[1], 1, h - 1)), Len(RANKS))

\* C24 witness: a Hi-Lo counter that has seen a 2, then a King, holds 0.
C24_Witness ==
    /\ pc = "returned"
    /\ ret[1] = "CardCounter.update"
    /\ system[1] = "Hi-Lo"
    /\ hands[1] = <<"2", "K">>
    /\ h = 3
    /\ count[1] = 0

\* C27: a count update never fails and its divisor keeps a positive floor:
\* update_count of advanced-blackjack-ai.py returns for every shoe size, and
\* CardCounter.update keeps decks_remaining at 1 or more.
C27_DivisorFloor ==
    /\ [](\A a \in 1..nSeats : decksRem[a] >= CardsPerDeck)
    /\ [][pc = "update_count" => pc' = "returned"]_vars

\* C25: a Split is carried out only on a 2-card hand of equal ranks of a seat
\* with fewer than 4 hands; it leaves that hand and a new last hand with 2 cards
\* each, one of the original cards first and one drawn card; a seat never holds
\* more than 4 hands; and every hand of the seat gets its turn (is the hand the
\* policy is queried for), unless the campaign ends in an error.
C25_SplitMakesTwoHands ==
    /\ [](Len(hands) <= 4)
    /\ [][(pc = "apply" /\ pc' # "error" /\ Len(hands') # Len(hands))
            => /\ decision = "Split"
               /\ Len(hands[h]) = 2 /\ hands[h][1] = hands[h][2]
               /\ Len(hands) < 4
               /\ Len(hands') = Len(hands) + 1
               /\ \A i \in 1..Len(hands) : i # h => hands'[i] = hands[i]
               /\ Len(hands'[h]) = 2 /\ hands'[h][1] = hands[h][1]
               /\ Len(hands'[Len(hands')]) = 2 /\ hands'[Len(hands')][1] = hands[h][2]
               /\ deck'[aiOf[seat]] = deck[aiOf[seat]] - 2]_vars
    /\ \A k \in 1..4 :
          (pc = "query" /\ h <= k /\ k <= Len(hands))
              ~> ((pc = "query" /\ h = k) \/ pc = "error")

\* C26: a campaign that completes returns numRounds entries; entry r is appended
\* when round r is over, after the last seat's settlement, and holds every
\* seat's bankroll in seat order; a bankroll changes only in the settlement of
\* one hand of its own seat, by the seat's bet or not at all.
C26_ResultsPerRound ==
    /\ [](pc = "done" => Len(results) = numRounds)
    /\ [](\A r \in 1..Len(results) : DOMAIN results[r] = 1..nSeats)
    /\ [][results' # results
            => /\ pc = "append" /\ seat = nSeats
               /\ Len(results) = round /\ round' = round + 1
               /\ results' = Append(results, bankroll)]_vars
    /\ [][bankroll' # bankroll
            => /\ pc = "settle"
               /\ \A s \in 1..nSeats : s # seat => bankroll'[s] = bankroll[s]
               /\ bankroll'[seat] - bankroll[seat] \in {-betSize[seat], betSize[seat]}]_vars

\* a completed campaign of two rounds whose two entries differ
C26_Witness ==
    /\ pc = "done"
    /\ numRounds = MaxRounds
    /\ Len(results) = MaxRounds
    /\ results[1] # results[2]

\* C29: the dealer's hand a seat is settled against has a value of at least
\* 17, and once the first seat of a round has been settled the dealer's cards
\* stay the same until the next round is dealt.
C29_OneDealerHand ==
    /\ [](pc = "settle" => HandValue(dealer) >= DealerStands)
    /\ [][(seat > 1 /\ pc # "deal") => dealer' = dealer]_vars

\* every seat plays from the shoe of players[0]
SharedShoe == \A s \in 1..nSeats : aiOf[s] = Ai0

\* the cards in the dealer's hand and in the hands of the seat at play
Held == Len(dealer) + Len(Flatten(hands))

\* C30: when all seats share one shoe, every step of a round takes from the
\* shoe exactly the cards it adds to the dealer's hand and to the seat's hands
\* (a card moved by a Split is in one hand only); the shoe grows only by the
\* reshuffle of a shoe under 52 cards; and while the first seat of the first
\* round plays, the shoe and the hands add up to the full starting shoe.
C30_CardsConserved ==
    /\ [](( /\ SharedShoe /\ round = 0 /\ seat = 1
            /\ pc \in {"query", "apply", "dealer", "dealerDraw", "settle", "reset", "update"})
           => deck[Ai0] + Held = numDecks[Ai0] * CardsPerDeck)
    /\ [][(SharedShoe /\ pc' # "error" /\ pc # "returned")
            => /\ deck'[Ai0] > deck[Ai0] => (pc = "check" /\ deck[Ai0] < ReshuffleBelow)
               /\ pc = "deal" => deck[Ai0] - deck'[Ai0] = Len(dealer')
               /\ pc = "seat" => deck[Ai0] - deck'[Ai0] = Len(Flatten(hands'))
               /\ pc \notin {"check", "deal", "seat"}
                     => deck[Ai0] - deck'[Ai0] = Held' - Held]_vars

\* the second seat of a shared shoe has split its hand and is being settled
C30_Witness ==
    /\ SharedShoe
    /\ nSeats = 2
    /\ seat = 2
    /\ pc = "settle"
    /\ Len(hands) >= 2

====
